---- MODULE Spec2Model ----
(***************************************************************************)
(* The user-account resolver of server/src/resolvers/user.ts: register,    *)
(* login, logout, forgotPassword and changePassword, run by concurrent     *)
(* requests over a shared user table, session store and token cache.      *)
(* Every `await` of a resolver is a point where other requests may run,   *)
(* so each resolver is split into one action per awaited collaborator     *)
(* call that reads or writes shared state; an awaited call that touches   *)
(* only the request's own data (argon2, the caller's session, the mail    *)
(* it sends) is taken together with the step before it.                   *)
(***************************************************************************)
EXTENDS Integers, Sequences, FiniteSets, TLC

\* ------------------------------------------------------------------ bounds
\* clients, each with its own session, one request in flight per client
MaxReqs == 2
\* rows the user table may hold
MaxUsers == 2
\* reset tokens the uuid generator hands out
MaxTokens == 2
\* clock advances
MaxTicks == 1
\* salts the hasher draws from
MaxSalts == 1
\* requests served in one behaviour, a failed collaborator call counting as
\* one more
MaxCalls == 5

Reqs == 1 .. MaxReqs
Tokens == 1 .. MaxTokens

\* ----------------------------------------------------------------- strings
\* A string is the sequence of its characters, so that length and
\* includes("@") are computed from its text.
Includes(s, c) == \E i \in 1 .. Len(s) : s[i] = c

Usernames == { <<"a", "l", "i">>, <<"b", "o", "b">> }
Emails == { <<"a", "@", "x">>, <<"b", "@", "y">> }
Passwords == { <<"s", "e", "c">>, <<"o", "t", "h">> }
ShortPassword == <<"a", "b">>

\* Inputs the registration validator turns away, one for each of its rules.
InvalidRegisterInputs ==
    { [username |-> <<"a", "@", "x">>, email |-> <<"b", "@", "y">>, password |-> <<"s", "e", "c">>],
      [username |-> <<"a", "l", "i">>, email |-> <<"a", "@", "x">>, password |-> ShortPassword] }

RegisterInputs ==
    [username : Usernames, email : Emails, password : {<<"s", "e", "c">>}]
        \cup InvalidRegisterInputs

LoginInputs == [usernameOrEmail : Usernames \cup Emails, password : Passwords]

ForgotPasswordInputs == [email : Emails \cup {<<"n", "@", "x">>}]

\* userId arrives as a string of decimal digits (the reset link's userId).
UserIdArgs == { <<"1">>, <<"2">> }

ChangePasswordInputs == [newPassword : Passwords \cup {ShortPassword}]

\* parseInt of a string of decimal digits.
DigitValue(c) ==
    CASE c = "0" -> 0 [] c = "1" -> 1 [] c = "2" -> 2 [] c = "3" -> 3 [] c = "4" -> 4
      [] c = "5" -> 5 [] c = "6" -> 6 [] c = "7" -> 7 [] c = "8" -> 8 [] c = "9" -> 9

RECURSIVE parseInt(_)
parseInt(s) ==
    IF s = <<>> THEN 0
    ELSE 10 * parseInt(SubSeq(s, 1, Len(s) - 1)) + DigitValue(s[Len(s)])

\* --------------------------------------------------------------- constants
FORGET_PASSWORD_PREFIX == "forgot-password:"
COOKIE_NAME == "cookie"

\* The number handed to redis.set after "EX".
TokenExpiry == 1000 * 60 * 60 * 24 * 3

\* "EX" counts seconds; the clock `now` counts seconds too.
SecondsPerDay == 24 * 60 * 60
ThreeDays == 3 * SecondsPerDay

\* ------------------------------------------------------------------- state
VARIABLES
    users,      \* the user table: sequence of rows, row i has id i
    session,    \* session store: each client's session -> userId (0: no userId)
    cache,      \* token cache: key -> [userId, expireAt] (expireAt 0: no key)
    now,        \* the clock, in seconds
    issued,     \* how many tokens v4() has produced
    outbox,     \* reset mails dispatched
    pc,         \* where each request stands
    call,       \* each request's operation and arguments
    local,      \* each request's local constants while it runs
    result,     \* what each request's promise settled to
    calls,      \* requests begun and collaborator calls failed so far
    exchanged,  \* history: per token, the changePassword calls that succeeded with it
    lastReg,    \* history: the registration that succeeded since the last request began
    follows,    \* history: per request, the registration it was issued next after
    lastChange, \* history: the password change that succeeded since the last request began
    followsChange   \* history: per request, the password change it was issued next after

vars == <<users, session, cache, now, issued, outbox, pc, call, local, result, calls,
          exchanged, lastReg, follows, lastChange, followsChange>>

\* ----------------------------------------------------------------- results
Msg(s) == <<s>>

NoResult == [kind |-> "pending"]

MutationResult(code, success, message, errors, user) ==
    [kind |-> "mutation", code |-> code, success |-> success,
     message |-> message, errors |-> errors, user |-> user]

FieldError(field, message) == [field |-> field, message |-> Msg(message)]

BoolResult(b) == [kind |-> "boolean", value |-> b]

Rejected(cause) == [kind |-> "rejected", cause |-> cause]

InternalError(cause) ==
    MutationResult(500, FALSE, Msg("Internal server error ") \o Msg(cause), <<>>, 0)

\* resolve on a promise that could be settled twice: the later value wins.
resolveLastWins(p, v) == v

\* A promise settles once: resolve on a settled promise changes nothing.
resolve(p, v) == IF p = NoResult THEN v ELSE p

\* ---------------------------------------------------------- password hasher
Salts == 1 .. MaxSalts

hash(plain, salt) == [alg |-> "argon2", salt |-> salt, of |-> plain]

verify(digest, plain) == hash(plain, digest.salt) = digest

\* -------------------------------------------------------------- user table
NoUser == [id |-> 0]

Rows(us) == { us[i] : i \in 1 .. Len(us) }

\* User.findOne({ where: [{ username }, { email }] }): the rows either
\* condition matches; the query has no ORDER BY, so any of them may be the
\* one returned.
findByUsernameOrEmail(us, username, email) ==
    { u \in Rows(us) : u.username = username \/ u.email = email }

\* findByEmail with the condition on email lost.
findByEmailAnyRow(us, email) == Rows(us)

findByEmail(us, email) == { u \in Rows(us) : u.email = email }

findByUsername(us, username) == { u \in Rows(us) : u.username = username }

findById(us, id) == { u \in Rows(us) : u.id = id }

\* A table without the unique constraints.
UniqueViolationNever(us, username, email) == FALSE

\* The table's unique constraints on username and email.
UniqueViolation(us, username, email) ==
    \E u \in Rows(us) : u.username = username \/ u.email = email

\* An update whose condition on id is lost: every row gets the digest.
updatePasswordEveryRow(us, id, digest) ==
    [i \in 1 .. Len(us) |-> [us[i] EXCEPT !.password = digest]]

\* User.update({ id }, { password })
updatePassword(us, id, digest) ==
    [i \in 1 .. Len(us) |->
        IF us[i].id = id THEN [us[i] EXCEPT !.password = digest] ELSE us[i]]

\* ------------------------------------------------------------- token cache
NoEntry == [userId |-> 0, expireAt |-> 0]

Key(token) == <<FORGET_PASSWORD_PREFIX, token>>

Keys == { Key(t) : t \in Tokens }

\* redis.get on a cache that never expires a key.
redisGetNoExpiry(c, key, t) == c[key].userId

\* redis.get: the value of a key that is set and has not expired (0: nil).
redisGet(c, key, t) ==
    IF c[key].expireAt > 0 /\ t < c[key].expireAt THEN c[key].userId ELSE 0

\* redis.set that also renews the expiry of every key already stored.
redisSetRenewing(c, key, value, seconds, t) ==
    [k \in DOMAIN c |->
        IF k = key THEN [userId |-> value, expireAt |-> t + seconds]
        ELSE IF c[k].expireAt > 0 THEN [c[k] EXCEPT !.expireAt = t + seconds]
        ELSE c[k]]

\* redis.set(key, value, "EX", seconds)
redisSet(c, key, value, seconds, t) ==
    [c EXCEPT ![key] = [userId |-> value, expireAt |-> t + seconds]]

\* redis.del that leaves the key in place.
redisDelKeeps(c, key) == c

\* redis.del(key)
redisDel(c, key) == [c EXCEPT ![key] = NoEntry]

\* ------------------------------------------------- registration validator
\* validateRegisterInput: the shape and length rules an input must pass
\* before register looks at the user table; errors <<>> stands for null.
validateRegisterInput(input) ==
    IF ~Includes(input.email, "@")
    THEN [message |-> Msg("Invalid email"),
          errors |-> <<FieldError("email", "Email must include @ symbol")>>]
    ELSE IF Len(input.username) <= 2
    THEN [message |-> Msg("Invalid username"),
          errors |-> <<FieldError("username", "Length must be greater than 2")>>]
    ELSE IF Includes(input.username, "@")
    THEN [message |-> Msg("Invalid username"),
          errors |-> <<FieldError("username", "Username cannot include @ symbol")>>]
    ELSE IF Len(input.password) <= 2
    THEN [message |-> Msg("Invalid password"),
          errors |-> <<FieldError("password", "Length must be greater than 2")>>]
    ELSE [message |-> <<>>, errors |-> <<>>]

\* -------------------------------------------------------------------- Init
Idle == [op |-> "none"]
NoLocal == [none |-> TRUE]

Init ==
    /\ users = <<>>
    /\ session = [r \in Reqs |-> 0]
    /\ cache = [k \in Keys |-> NoEntry]
    /\ now = 0
    /\ issued = 0
    /\ outbox = {}
    /\ pc = [r \in Reqs |-> "idle"]
    /\ call = [r \in Reqs |-> Idle]
    /\ local = [r \in Reqs |-> NoLocal]
    /\ result = [r \in Reqs |-> NoResult]
    /\ calls = 0
    /\ exchanged = [t \in Tokens |-> 0]
    /\ lastReg = NoUser
    /\ follows = [r \in Reqs |-> NoUser]
    /\ lastChange = NoUser
    /\ followsChange = [r \in Reqs |-> NoUser]

\* A settled promise is handed to the client before anything else happens.
Delivering == \E r \in Reqs : pc[r] = "done"

\* A request arrives and runs up to the await after its first collaborator
\* call (the request touches nothing shared before that call answers).
Begin(r, c, label, l) ==
    /\ calls < MaxCalls
    /\ calls' = calls + 1
    /\ follows' = [follows EXCEPT ![r] = lastReg]
    /\ lastReg' = NoUser
    /\ followsChange' = [followsChange EXCEPT ![r] = lastChange]
    /\ lastChange' = NoUser
    /\ UNCHANGED exchanged
    /\ pc' = [pc EXCEPT ![r] = label]
    /\ call' = [call EXCEPT ![r] = c]
    /\ local' = [local EXCEPT ![r] = l]
    /\ result' = [result EXCEPT ![r] = NoResult]

\* A request's promise settles on its first run.
BeginReturn(r, c, v) ==
    /\ calls < MaxCalls
    /\ calls' = calls + 1
    /\ follows' = [follows EXCEPT ![r] = lastReg]
    /\ lastReg' = NoUser
    /\ followsChange' = [followsChange EXCEPT ![r] = lastChange]
    /\ lastChange' = NoUser
    /\ UNCHANGED exchanged
    /\ pc' = [pc EXCEPT ![r] = "done"]
    /\ call' = [call EXCEPT ![r] = c]
    /\ local' = [local EXCEPT ![r] = NoLocal]
    /\ result' = [result EXCEPT ![r] = v]

\* A request resumes after an await and runs up to its next await.
Goto(r, label, l) ==
    /\ pc' = [pc EXCEPT ![r] = label]
    /\ local' = [local EXCEPT ![r] = l]
    /\ UNCHANGED <<call, result, calls, follows, followsChange>>

\* A request's promise settles; its locals are gone.
Return(r, v) ==
    /\ pc' = [pc EXCEPT ![r] = "done"]
    /\ local' = [local EXCEPT ![r] = NoLocal]
    /\ result' = [result EXCEPT ![r] = v]
    /\ UNCHANGED <<call, calls, follows, followsChange>>

\* A request arrives and its first collaborator call throws.
BeginThrow(r, c, v) ==
    /\ calls + 1 < MaxCalls
    /\ calls' = calls + 2
    /\ follows' = [follows EXCEPT ![r] = lastReg]
    /\ lastReg' = NoUser
    /\ followsChange' = [followsChange EXCEPT ![r] = lastChange]
    /\ lastChange' = NoUser
    /\ UNCHANGED exchanged
    /\ pc' = [pc EXCEPT ![r] = "done"]
    /\ call' = [call EXCEPT ![r] = c]
    /\ local' = [local EXCEPT ![r] = NoLocal]
    /\ result' = [result EXCEPT ![r] = v]

\* A later collaborator call of a request throws and settles its promise.
Throw(r, v) ==
    /\ calls < MaxCalls
    /\ calls' = calls + 1
    /\ pc' = [pc EXCEPT ![r] = "done"]
    /\ local' = [local EXCEPT ![r] = NoLocal]
    /\ result' = [result EXCEPT ![r] = v]
    /\ UNCHANGED <<call, follows, followsChange>>

\* The client has its answer; it may send its next request.
Respond(r) ==
    /\ pc[r] = "done"
    /\ pc' = [pc EXCEPT ![r] = "idle"]
    /\ call' = [call EXCEPT ![r] = Idle]
    /\ result' = [result EXCEPT ![r] = NoResult]
    /\ local' = [local EXCEPT ![r] = NoLocal]
    /\ follows' = [follows EXCEPT ![r] = NoUser]
    /\ followsChange' = [followsChange EXCEPT ![r] = NoUser]
    /\ UNCHANGED <<users, session, cache, now, issued, outbox, calls, exchanged, lastReg, lastChange>>

\* ---------------------------------------------------------------- register
InsertsPending == Cardinality({ r \in Reqs : pc[r] = "reg_save" })

\* DuplicateResult with the two field names swapped.
DuplicateResultSwapped(existingUser, username) ==
    MutationResult(400, FALSE, Msg("Duplicated username or email"),
        << [field |-> IF existingUser.username = username THEN "email" ELSE "username",
            message |-> Msg(IF existingUser.username = username THEN "Email" ELSE "Username")
                            \o Msg(" already taken")] >>, 0)

DuplicateResult(existingUser, username) ==
    MutationResult(400, FALSE, Msg("Duplicated username or email"),
        << [field |-> IF existingUser.username = username THEN "username" ELSE "email",
            message |-> Msg(IF existingUser.username = username THEN "Username" ELSE "Email")
                            \o Msg(" already taken")] >>, 0)

\* register up to `await newUser.save()`: the validator, the lookup for an
\* existing user and, with none, the hash of the password.
RegisterCall(r, input) ==
    /\ pc[r] = "idle" /\ ~Delivering
    /\ \/ Len(users) + InsertsPending < MaxUsers
       \/ UniqueViolation(users, input.username, input.email)
       \/ validateRegisterInput(input).errors # <<>>
    /\ LET c == [op |-> "register", input |-> input]
           validateRegisterInputErrors == validateRegisterInput(input)
           matches == findByUsernameOrEmail(users, input.username, input.email)
       IN  IF validateRegisterInputErrors.errors # <<>>
           THEN BeginReturn(r, c, MutationResult(400, FALSE,
                    validateRegisterInputErrors.message,
                    validateRegisterInputErrors.errors, 0))
           ELSE \/ /\ matches = {}
                   /\ \E salt \in Salts :
                        Begin(r, c, "reg_save",
                              [hashedPassword |-> hash(input.password, salt)])
                \/ \E existingUser \in matches :
                        BeginReturn(r, c, DuplicateResult(existingUser, input.username))
    /\ UNCHANGED <<users, session, cache, now, issued, outbox>>

\* newUser.save(): the table rejects a row that breaks a unique constraint,
\* which the catch block turns into a 500; otherwise the row gets the next
\* id, the session gets that id and the call succeeds.
RegisterSave(r) ==
    /\ pc[r] = "reg_save" /\ ~Delivering
    /\ LET input == call[r].input
           newUser == [id |-> Len(users) + 1, username |-> input.username,
                       email |-> input.email, password |-> local[r].hashedPassword]
       IN  IF UniqueViolation(users, input.username, input.email)
           THEN /\ Return(r, InternalError("ER_DUP_ENTRY"))
                /\ UNCHANGED <<users, session, lastReg, lastChange>>
           ELSE /\ users' = Append(users, newUser)
                /\ session' = [session EXCEPT ![r] = newUser.id]
                /\ Return(r, MutationResult(200, TRUE, Msg("User registration successful"),
                                            <<>>, newUser.id))
                /\ lastReg' = [id |-> newUser.id, username |-> input.username,
                               email |-> input.email, password |-> input.password]
                /\ UNCHANGED lastChange
    /\ UNCHANGED <<cache, now, issued, outbox, exchanged>>

\* ------------------------------------------------------------------- login
\* loginLookup without the "@" test: always by username.
loginLookupByUsername(us, usernameOrEmail) == findByUsername(us, usernameOrEmail)

loginLookup(us, usernameOrEmail) ==
    IF Includes(usernameOrEmail, "@")
    THEN findByEmail(us, usernameOrEmail)
    ELSE findByUsername(us, usernameOrEmail)

\* LoginCall with the session written before the password is verified.
LoginCallSessionFirst(r, input) ==
    /\ pc[r] = "idle" /\ ~Delivering
    /\ LET c == [op |-> "login", input |-> input]
           found == loginLookup(users, input.usernameOrEmail)
       IN  \/ /\ found = {}
              /\ BeginReturn(r, c, MutationResult(400, FALSE, Msg("User not found"),
                     <<FieldError("usernameOrEmail", "Username or email incorrect")>>, 0))
              /\ UNCHANGED session
           \/ \E existingUser \in found :
                 LET passwordValid == verify(existingUser.password, input.password)
                 IN  /\ session' = [session EXCEPT ![r] = existingUser.id]
                     /\ IF ~passwordValid
                        THEN BeginReturn(r, c, MutationResult(400, FALSE, Msg("Wrong password"),
                                 <<FieldError("password", "Wrong password")>>, 0))
                        ELSE BeginReturn(r, c, MutationResult(200, TRUE,
                                 Msg("Logged in successfully"), <<>>, existingUser.id))
    /\ UNCHANGED <<users, cache, now, issued, outbox>>

\* login: the lookup, the verification against the row it returned, and
\* the session write. What follows the lookup touches only the digest login
\* already holds and the caller's own session, so it is taken in the same
\* step.
LoginCall(r, input) ==
    /\ pc[r] = "idle" /\ ~Delivering
    /\ LET c == [op |-> "login", input |-> input]
           found == loginLookup(users, input.usernameOrEmail)
       IN  \/ /\ found = {}
              /\ BeginReturn(r, c, MutationResult(400, FALSE, Msg("User not found"),
                     <<FieldError("usernameOrEmail", "Username or email incorrect")>>, 0))
              /\ UNCHANGED session
           \/ \E existingUser \in found :
                 LET passwordValid == verify(existingUser.password, input.password)
                 IN  IF ~passwordValid
                     THEN /\ BeginReturn(r, c, MutationResult(400, FALSE, Msg("Wrong password"),
                                 <<FieldError("password", "Wrong password")>>, 0))
                          /\ UNCHANGED session
                     ELSE /\ session' = [session EXCEPT ![r] = existingUser.id]
                          /\ BeginReturn(r, c, MutationResult(200, TRUE,
                                 Msg("Logged in successfully"), <<>>, existingUser.id))
    /\ UNCHANGED <<users, cache, now, issued, outbox>>

\* ------------------------------------------------------------------ logout
\* The executor of the returned promise: the cookie is cleared on this
\* request's response, then the session store is asked to destroy.
LogoutCall(r) ==
    /\ pc[r] = "idle" /\ ~Delivering
    /\ Begin(r, [op |-> "logout"], "logout_destroy",
             [clearedCookies |-> {COOKIE_NAME}, error |-> FALSE])
    /\ UNCHANGED <<users, session, cache, now, issued, outbox>>

\* The destroy callback with no error: the session record is gone.
LogoutDestroyed(r) ==
    /\ pc[r] = "logout_destroy" /\ ~Delivering
    /\ session' = [session EXCEPT ![r] = 0]
    /\ pc' = [pc EXCEPT ![r] = "done"]
    /\ result' = [result EXCEPT ![r] = resolve(result[r], BoolResult(TRUE))]
    /\ UNCHANGED <<users, cache, now, issued, outbox, call, local, calls,
                   exchanged, lastReg, lastChange, follows, followsChange>>

\* The destroy callback with an error: resolve(false), then, with no
\* return in between, resolve(true). The session record stays.
LogoutDestroyError(r) ==
    /\ pc[r] = "logout_destroy" /\ ~Delivering
    /\ calls < MaxCalls
    /\ calls' = calls + 1
    /\ pc' = [pc EXCEPT ![r] = "done"]
    /\ result' = [result EXCEPT ![r] =
                    resolve(resolve(result[r], BoolResult(FALSE)), BoolResult(TRUE))]
    /\ local' = [local EXCEPT ![r].error = TRUE]
    /\ UNCHANGED <<users, session, cache, now, issued, outbox, call,
                   exchanged, lastReg, lastChange, follows, followsChange>>

\* ---------------------------------------------------------- forgotPassword
\* v4(): a token no earlier call was given.
v4(n) == n + 1

ResetLink(to, token, userId) == [to |-> to, token |-> token, userId |-> userId]

\* forgotPassword up to `await redis.set`: an unknown email returns true at
\* once, a known one draws the token.
ForgotPasswordCall(r, input) ==
    /\ pc[r] = "idle" /\ ~Delivering
    /\ issued < MaxTokens
    /\ LET c == [op |-> "forgotPassword", input |-> input]
           found == findByEmail(users, input.email)
       IN  \/ /\ found = {}
              /\ BeginReturn(r, c, BoolResult(TRUE))
              /\ UNCHANGED issued
           \/ /\ \E user \in found :
                    Begin(r, c, "fp_set", [user |-> user, token |-> v4(issued)])
              /\ issued' = v4(issued)
    /\ UNCHANGED <<users, session, cache, now, outbox>>

\* redis.set answers and the reset link is mailed. The mail goes to the
\* outbox, which no request reads, so it is taken in the same step.
ForgotPasswordSet(r) ==
    /\ pc[r] = "fp_set" /\ ~Delivering
    /\ cache' = redisSet(cache, Key(local[r].token), local[r].user.id, TokenExpiry, now)
    /\ outbox' = outbox \cup
            {ResetLink(call[r].input.email, local[r].token, local[r].user.id)}
    /\ Return(r, BoolResult(TRUE))
    /\ UNCHANGED <<users, session, now, issued, exchanged, lastReg, lastChange>>

\* ---------------------------------------------------------- changePassword
InvalidTokenResult ==
    MutationResult(400, FALSE, Msg("Invalid or expired password reset token"),
        <<FieldError("token", "Invalid or expired password reset token")>>, 0)

UserGoneResult ==
    MutationResult(400, FALSE, Msg("User no longer exists"),
        <<FieldError("token", "User no longer exists")>>, 0)

\* ChangePasswordCall with the cache lookup ahead of the length check.
ChangePasswordCallTokenFirst(r, token, userId, input) ==
    /\ pc[r] = "idle" /\ ~Delivering
    /\ LET c == [op |-> "changePassword", token |-> token,
                 userId |-> userId, input |-> input]
           key == Key(token)
           resetPasswordTokenRecord == redisGet(cache, key, now)
       IN  IF resetPasswordTokenRecord = 0
           THEN BeginReturn(r, c, InvalidTokenResult)
           ELSE IF Len(input.newPassword) <= 2
           THEN BeginReturn(r, c, MutationResult(400, FALSE, Msg("Invalid password"),
                    <<FieldError("newPassword", "Length must be greater than 2")>>, 0))
           ELSE Begin(r, c, "cp_find", [key |-> key])
    /\ UNCHANGED <<users, session, cache, now, issued, outbox>>

\* changePassword up to `await User.findOne(userIdNum)`: the length check
\* and the cache lookup.
ChangePasswordCall(r, token, userId, input) ==
    /\ pc[r] = "idle" /\ ~Delivering
    /\ LET c == [op |-> "changePassword", token |-> token,
                 userId |-> userId, input |-> input]
           key == Key(token)
           resetPasswordTokenRecord == redisGet(cache, key, now)
       IN  IF Len(input.newPassword) <= 2
           THEN BeginReturn(r, c, MutationResult(400, FALSE, Msg("Invalid password"),
                    <<FieldError("newPassword", "Length must be greater than 2")>>, 0))
           ELSE IF resetPasswordTokenRecord = 0
           THEN BeginReturn(r, c, InvalidTokenResult)
           ELSE Begin(r, c, "cp_find", [key |-> key])
    /\ UNCHANGED <<users, session, cache, now, issued, outbox>>

\* The lookup by id answers; with a user the new password is hashed (the
\* hash touches no shared state, so it is taken in the same step).
ChangePasswordFind(r) ==
    /\ pc[r] = "cp_find" /\ ~Delivering
    /\ LET userIdNum == parseInt(call[r].userId)
           found == findById(users, userIdNum)
       IN  \/ /\ found = {}
              /\ Return(r, UserGoneResult)
           \/ \E user \in found, salt \in Salts :
                 Goto(r, "cp_update",
                      [key |-> local[r].key, userIdNum |-> userIdNum, user |-> user,
                       updatedPassword |-> hash(call[r].input.newPassword, salt)])
    /\ UNCHANGED <<users, session, cache, now, issued, outbox, exchanged, lastReg, lastChange>>

ChangePasswordUpdate(r) ==
    /\ pc[r] = "cp_update" /\ ~Delivering
    /\ users' = updatePassword(users, local[r].userIdNum, local[r].updatedPassword)
    /\ Goto(r, "cp_del", local[r])
    /\ UNCHANGED <<session, cache, now, issued, outbox, exchanged, lastReg, lastChange>>

ChangePasswordDel(r) ==
    /\ pc[r] = "cp_del" /\ ~Delivering
    /\ cache' = redisDel(cache, local[r].key)
    /\ session' = [session EXCEPT ![r] = local[r].user.id]
    /\ Return(r, MutationResult(200, TRUE, Msg("User password reset successfully"),
                                <<>>, local[r].user.id))
    /\ exchanged' = [exchanged EXCEPT ![call[r].token] = @ + 1]
    /\ lastChange' = [id |-> local[r].user.id,
                      password |-> call[r].input.newPassword,
                      previous |-> local[r].user.password,
                      written |-> local[r].updatedPassword]
    /\ UNCHANGED <<users, now, issued, outbox, lastReg>>

\* ------------------------------------------------------------------- clock
TickSteps == {ThreeDays, TokenExpiry}

TicksTaken == (now \div TokenExpiry) + ((now % TokenExpiry) \div ThreeDays)

Tick(d) ==
    /\ ~Delivering
    /\ TicksTaken < MaxTicks
    /\ \E k \in Keys : cache[k].expireAt > now
    /\ now' = now + d
    /\ UNCHANGED <<users, session, cache, issued, outbox, pc, call, local, result, calls,
                   exchanged, lastReg, lastChange, follows, followsChange>>

\* ------------------------------------------------------------------ faults
\* The first collaborator call of a request throws (for login: the lookup
\* or the verification): register, login and changePassword catch it;
\* forgotPassword has no try block, so its promise rejects.
RegisterCallFault(r, input) ==
    /\ pc[r] = "idle" /\ ~Delivering
    /\ validateRegisterInput(input).errors = <<>>
    /\ BeginThrow(r, [op |-> "register", input |-> input], InternalError("findOne"))
    /\ UNCHANGED <<users, session, cache, now, issued, outbox>>

LoginCallFault(r, input) ==
    /\ pc[r] = "idle" /\ ~Delivering
    /\ BeginThrow(r, [op |-> "login", input |-> input], InternalError("findOne"))
    /\ UNCHANGED <<users, session, cache, now, issued, outbox>>

ChangePasswordCallFault(r, token, userId, input) ==
    /\ pc[r] = "idle" /\ ~Delivering
    /\ Len(input.newPassword) > 2
    /\ BeginThrow(r, [op |-> "changePassword", token |-> token,
                       userId |-> userId, input |-> input], InternalError("get"))
    /\ UNCHANGED <<users, session, cache, now, issued, outbox>>

ForgotPasswordCallFault(r, input) ==
    /\ pc[r] = "idle" /\ ~Delivering
    /\ BeginThrow(r, [op |-> "forgotPassword", input |-> input], Rejected("findOne"))
    /\ UNCHANGED <<users, session, cache, now, issued, outbox>>

\* A later collaborator call of a request throws.
\* RegisterFault of a register that writes the session before the save
\* has answered.
RegisterFaultSessionWritten(r) ==
    /\ pc[r] = "reg_save" /\ ~Delivering
    /\ Throw(r, InternalError(pc[r]))
    /\ session' = [session EXCEPT ![r] = Len(users) + 1]
    /\ UNCHANGED <<users, cache, now, issued, outbox, exchanged, lastReg, lastChange>>

RegisterFault(r) ==
    /\ pc[r] = "reg_save" /\ ~Delivering
    /\ Throw(r, InternalError(pc[r]))
    /\ UNCHANGED <<users, session, cache, now, issued, outbox, exchanged, lastReg, lastChange>>

\* changePassword without its try block: the failure rejects the promise.
ChangePasswordFaultEscapes(r) ==
    /\ pc[r] \in {"cp_find", "cp_update", "cp_del"} /\ ~Delivering
    /\ Throw(r, Rejected(pc[r]))
    /\ UNCHANGED <<users, session, cache, now, issued, outbox, exchanged, lastReg, lastChange>>

ChangePasswordFault(r) ==
    /\ pc[r] \in {"cp_find", "cp_update", "cp_del"} /\ ~Delivering
    /\ Throw(r, InternalError(pc[r]))
    /\ UNCHANGED <<users, session, cache, now, issued, outbox, exchanged, lastReg, lastChange>>

ForgotPasswordFault(r) ==
    /\ pc[r] = "fp_set" /\ ~Delivering
    /\ Throw(r, Rejected(pc[r]))
    /\ UNCHANGED <<users, session, cache, now, issued, outbox, exchanged, lastReg, lastChange>>

\* redis.set answers but the mail dispatcher fails to deliver: no mail goes
\* out and the failure is not raised to forgotPassword.
ForgotPasswordMailLost(r) ==
    /\ pc[r] = "fp_set" /\ ~Delivering
    /\ cache' = redisSet(cache, Key(local[r].token), local[r].user.id, TokenExpiry, now)
    /\ Throw(r, BoolResult(TRUE))
    /\ UNCHANGED <<users, session, now, issued, outbox, exchanged, lastReg, lastChange>>

\* -------------------------------------------------------------------- Next
Call(r) ==
    \/ \E input \in RegisterInputs : RegisterCall(r, input)
    \/ \E input \in LoginInputs : LoginCall(r, input)
    \/ LogoutCall(r)
    \/ \E input \in ForgotPasswordInputs : ForgotPasswordCall(r, input)
    \/ \E token \in Tokens, userId \in UserIdArgs, input \in ChangePasswordInputs :
            ChangePasswordCall(r, token, userId, input)

Step(r) ==
    \/ RegisterSave(r)
    \/ LogoutDestroyed(r)
    \/ ForgotPasswordSet(r)
    \/ ChangePasswordFind(r)
    \/ ChangePasswordUpdate(r)
    \/ ChangePasswordDel(r)
    \/ Respond(r)

Fault(r) ==
    \/ \E input \in RegisterInputs : RegisterCallFault(r, input)
    \/ \E input \in LoginInputs : LoginCallFault(r, input)
    \/ \E input \in ForgotPasswordInputs : ForgotPasswordCallFault(r, input)
    \/ \E token \in Tokens, userId \in UserIdArgs, input \in ChangePasswordInputs :
            ChangePasswordCallFault(r, token, userId, input)
    \/ RegisterFault(r)
    \/ ChangePasswordFault(r)
    \/ ForgotPasswordFault(r)
    \/ ForgotPasswordMailLost(r)
    \/ LogoutDestroyError(r)

Next ==
    \/ \E r \in Reqs : Call(r)
    \/ \E r \in Reqs : Step(r)
    \/ \E d \in TickSteps : Tick(d)

\* Every collaborator call answers.
Spec == Init /\ [][Next]_vars

NextFault ==
    \/ Next
    \/ \E r \in Reqs : Fault(r)

\* Collaborator calls may also fail.
SpecFault == Init /\ [][NextFault]_vars

\* ------------------------------------------------------------- properties
\* Request r begins operation op in this step.
Calls(r, op) == pc[r] = "idle" /\ pc'[r] # "idle" /\ call'[r].op = op

\* Request r has settled with operation op and its answer is being delivered.
Done(r, op) == pc[r] = "done" /\ call[r].op = op

Collides(input) ==
    \E u \in Rows(users) : u.username = input.username \/ u.email = input.email

UsernameTaken(username) == \E u \in Rows(users) : u.username = username

EmailTaken(email) == \E u \in Rows(users) : u.email = email

Expired(t) == cache[Key(t)].expireAt > 0 /\ now >= cache[Key(t)].expireAt

\* C1 as stated: once a changePassword with token T has succeeded, every
\* changePassword call with T that starts afterwards returns the
\* invalid-or-expired token error (code 400, field "token") and changes no
\* stored password.
C1_EveryLaterCallGetsTokenError ==
    [][\A r \in Reqs :
          (Calls(r, "changePassword") /\ exchanged[call'[r].token] > 0)
              => /\ pc'[r] = "done"
                 /\ result'[r] = InvalidTokenResult
                 /\ users' = users]_vars

\* C1 amended: once a changePassword with token T has succeeded, every
\* changePassword call with T that starts afterwards returns success=false
\* and changes no stored password, and when its new password is longer than
\* 2 characters the result is the invalid-or-expired token error (code 400,
\* field "token").
C1_SingleUse ==
    [][\A r \in Reqs :
          (Calls(r, "changePassword") /\ exchanged[call'[r].token] > 0)
              => /\ pc'[r] = "done"
                 /\ result'[r].success = FALSE
                 /\ users' = users
                 /\ Len(call'[r].input.newPassword) > 2
                        => result'[r] = InvalidTokenResult]_vars

C1_Witness ==
    \E r \in Reqs :
        /\ Done(r, "changePassword")
        /\ exchanged[call[r].token] > 0
        /\ Len(call[r].input.newPassword) > 2
        /\ result[r] = InvalidTokenResult

\* C2: in every execution, also with changePassword requests on the same
\* token interleaved, at most one changePassword call per token returns
\* success=true.
C2_AtMostOneExchange == \A t \in Tokens : exchanged[t] <= 1

\* C3: a changePassword call whose cache lookup happens after the token's
\* expiry has elapsed returns exactly what a call with a never-issued token
\* returns (code 400, field "token", the invalid-or-expired message) and
\* leaves the stored passwords and the session unchanged.
C3_ExpiredLikeNeverIssued ==
    [][\A r \in Reqs :
          (/\ Calls(r, "changePassword")
           /\ Len(call'[r].input.newPassword) > 2
           /\ Expired(call'[r].token) \/ call'[r].token > issued)
              => /\ pc'[r] = "done"
                 /\ result'[r] = InvalidTokenResult
                 /\ users' = users
                 /\ session' = session]_vars

C3_Witness ==
    \E r \in Reqs :
        /\ Done(r, "changePassword")
        /\ Len(call[r].input.newPassword) > 2
        /\ Expired(call[r].token)
        /\ result[r] = InvalidTokenResult

\* Request r is a login that was the first request issued after a register
\* call returned success, and carries that registration's username or email
\* and its password (follows[r] holds the registered row, with the password
\* as given).
FollowsRegistration(r) ==
    /\ Done(r, "login")
    /\ follows[r].id # 0
    /\ call[r].input.usernameOrEmail \in {follows[r].username, follows[r].email}
    /\ call[r].input.password = follows[r].password

\* C4: a login issued next after a successful register, with usernameOrEmail
\* equal to the registered username or email and the same password, returns
\* success=true, code 200, and sets the requesting session's userId to the
\* id of the user that registration created.
C4_RegisterThenLogin ==
    \A r \in Reqs :
        FollowsRegistration(r)
            => /\ result[r] = MutationResult(200, TRUE, Msg("Logged in successfully"),
                                             <<>>, follows[r].id)
               /\ session[r] = follows[r].id

\* C5: a register call with input that passes validation and whose username
\* or email is that of an existing user returns success=false, code=400 and
\* one errors entry whose field ("username" or "email") names an attribute
\* that really collides; no user is inserted and the session is not modified.
C5_DuplicateRejected ==
    [][\A r \in Reqs :
          (/\ Calls(r, "register")
           /\ validateRegisterInput(call'[r].input).errors = <<>>
           /\ Collides(call'[r].input))
              => /\ pc'[r] = "done"
                 /\ result'[r].code = 400
                 /\ result'[r].success = FALSE
                 /\ Len(result'[r].errors) = 1
                 /\ \/ /\ result'[r].errors[1].field = "username"
                       /\ UsernameTaken(call'[r].input.username)
                    \/ /\ result'[r].errors[1].field = "email"
                       /\ EmailTaken(call'[r].input.email)
                 /\ users' = users
                 /\ session' = session]_vars

C5_Witness ==
    \E r \in Reqs :
        /\ Done(r, "register")
        /\ result[r].code = 400
        /\ validateRegisterInput(call[r].input).errors = <<>>
        /\ result[r].errors[1].field = "email"
        /\ EmailTaken(call[r].input.email)
        /\ ~UsernameTaken(call[r].input.username)

\* C6: a register call whose username is that of an existing user reports
\* the field "username", also when its email is that of another existing
\* user; "email" is reported only when the username collides with no user.
C6_UsernameFirst ==
    [][\A r \in Reqs :
          (/\ Calls(r, "register")
           /\ validateRegisterInput(call'[r].input).errors = <<>>
           /\ UsernameTaken(call'[r].input.username))
              => /\ pc'[r] = "done"
                 /\ result'[r].errors[1].field = "username"]_vars

\* C7: in every reachable state of the user table, also with register
\* requests interleaved, no two rows share a username and no two rows share
\* an email.
C7_IdentityUnique ==
    \A i, j \in 1 .. Len(users) :
        i # j => /\ users[i].username # users[j].username
                 /\ users[i].email # users[j].email

\* Two registrations of one identity both passed the lookup; the table
\* turned the second row away.
C7_Witness ==
    \E r \in Reqs :
        /\ Done(r, "register")
        /\ result[r] = InternalError("ER_DUP_ENTRY")
        /\ Collides(call[r].input)

\* C8: on every logout call the cookie is cleared before the session store
\* is asked to destroy, hence in both outcomes; the promise resolves to true
\* when destroy reports no error and to false, never true and never a
\* rejection, when it reports one.
C8_LogoutDegrades ==
    \A r \in Reqs :
        call[r].op = "logout"
            => /\ COOKIE_NAME \in local[r].clearedCookies
               /\ pc[r] = "logout_destroy" => result[r] = NoResult
               /\ pc[r] = "done" => result[r] = BoolResult(~local[r].error)

C8_Witness ==
    \E r \in Reqs :
        /\ Done(r, "logout")
        /\ local[r].error
        /\ result[r] = BoolResult(FALSE)
        /\ COOKIE_NAME \in local[r].clearedCookies

\* C9: forgotPassword with an email that belongs to no user returns true,
\* writes no key to the token cache and dispatches no mail; cache, user
\* table and sessions are unchanged.
C9_UnknownEmailNoEffect ==
    [][\A r \in Reqs :
          (Calls(r, "forgotPassword") /\ ~EmailTaken(call'[r].input.email))
              => /\ pc'[r] = "done"
                 /\ result'[r] = BoolResult(TRUE)
                 /\ UNCHANGED <<cache, outbox, users, session, issued>>]_vars

C9_Witness ==
    \E r \in Reqs :
        /\ Done(r, "forgotPassword")
        /\ Len(users) > 0
        /\ ~EmailTaken(call[r].input.email)
        /\ result[r] = BoolResult(TRUE)
        /\ outbox = {}

\* C10: once the lookup by email has answered, forgotPassword returns true
\* in every case, also when the cache write fails and when the mail
\* dispatch fails.
C10_AlwaysTrueAfterLookup ==
    \A r \in Reqs :
        (Done(r, "forgotPassword") /\ ~(result[r].kind = "rejected" /\ result[r].cause = "findOne"))
            => result[r] = BoolResult(TRUE)

\* A collaborator call of request r fails in this step.
Throws(r) ==
    \/ pc[r] = "idle" /\ pc'[r] = "done" /\ calls' = calls + 2
    \/ pc[r] \notin {"idle", "done"} /\ pc'[r] = "done" /\ calls' = calls + 1

Guarded == {"register", "login", "changePassword"}

\* C11: when a collaborator call inside register, login or changePassword
\* fails, the operation returns code=500, success=false instead of raising;
\* every call of these three operations settles with a MutationResult whose
\* code is 200, 400 or 500, with success=true exactly when code=200.
C11_NoFaultEscapes ==
    [][\A r \in Reqs :
          (pc'[r] = "done" /\ call'[r].op \in Guarded)
              => /\ result'[r].kind = "mutation"
                 /\ result'[r].code \in {200, 400, 500}
                 /\ result'[r].success <=> result'[r].code = 200
                 /\ Throws(r) => result'[r].code = 500]_vars

C11_Witness ==
    \E r \in Reqs :
        /\ Done(r, "changePassword")
        /\ result[r] = InternalError("cp_del")

\* C12: changePassword applies its checks in the order new-password length,
\* token presence, user existence, and the first failing check alone decides
\* the result: a new password of length 2 or less yields code 400 with one
\* error on "newPassword" even when the token is valid, and the cache is
\* left as it was; otherwise a missing or expired token yields the
\* invalid-or-expired result on "token"; otherwise a userId that matches no
\* user yields code 400 on "token" with "User no longer exists".
C12_CheckOrder ==
    [][\A r \in Reqs :
          /\ Calls(r, "changePassword") =>
                LET c == call'[r]
                IN  IF Len(c.input.newPassword) <= 2
                    THEN /\ pc'[r] = "done"
                         /\ result'[r].code = 400
                         /\ Len(result'[r].errors) = 1
                         /\ result'[r].errors[1].field = "newPassword"
                         /\ cache' = cache
                    ELSE IF redisGet(cache, Key(c.token), now) = 0
                    THEN /\ pc'[r] = "done"
                         /\ result'[r] = InvalidTokenResult
                    ELSE pc'[r] = "cp_find"
          /\ (pc[r] = "cp_find" /\ pc'[r] # "cp_find") =>
                IF findById(users, parseInt(call[r].userId)) = {}
                THEN pc'[r] = "done" /\ result'[r] = UserGoneResult
                ELSE pc'[r] = "cp_update"]_vars

\* A short new password is turned away while the token it came with is live.
C12_Witness ==
    \E r \in Reqs :
        /\ Done(r, "changePassword")
        /\ Len(call[r].input.newPassword) <= 2
        /\ redisGet(cache, Key(call[r].token), now) # 0
        /\ result[r].errors[1].field = "newPassword"

\* C13: login looks the user up by email exactly when usernameOrEmail
\* contains "@" and by username otherwise; with no user found the result is
\* code 400, success=false with the single error field "usernameOrEmail";
\* with a user whose stored digest the password does not verify against it
\* is code 400, success=false with the single error field "password"; only
\* when the password verifies is the session's userId set to that user's id
\* and code 200, success=true returned with that user.
C13_LoginOutcome ==
    [][\A r \in Reqs :
          Calls(r, "login") =>
            LET input == call'[r].input
                found == { u \in Rows(users) :
                             IF Includes(input.usernameOrEmail, "@")
                             THEN u.email = input.usernameOrEmail
                             ELSE u.username = input.usernameOrEmail }
            IN  /\ pc'[r] = "done"
                /\ found = {} =>
                      /\ result'[r].code = 400 /\ ~result'[r].success
                      /\ Len(result'[r].errors) = 1
                      /\ result'[r].errors[1].field = "usernameOrEmail"
                      /\ session' = session
                /\ found # {} =>
                      \E u \in found :
                         IF verify(u.password, input.password)
                         THEN /\ result'[r].code = 200 /\ result'[r].success
                              /\ result'[r].user = u.id
                              /\ session' = [session EXCEPT ![r] = u.id]
                         ELSE /\ result'[r].code = 400 /\ ~result'[r].success
                              /\ Len(result'[r].errors) = 1
                              /\ result'[r].errors[1].field = "password"
                              /\ session' = session]_vars

\* A login by email succeeds with two users registered.
C13_Witness ==
    \E r \in Reqs :
        /\ Done(r, "login")
        /\ Includes(call[r].input.usernameOrEmail, "@")
        /\ result[r].success
        /\ session[r] = result[r].user
        /\ Len(users) = 2

\* C14: the time-to-live forgotPassword gives a reset token's cache entry,
\* counted in the seconds of the cache's "EX" option, is 3 days (259200
\* seconds): the entry expires 3 days after its issue, and from then on the
\* token is unusable.
C14_ThreeDayExpiry ==
    [][\A r \in Reqs :
          (pc[r] = "fp_set" /\ pc'[r] = "done" /\ result'[r] = BoolResult(TRUE))
              => LET key == Key(local[r].token)
                 IN  /\ cache'[key].expireAt = now + ThreeDays
                     /\ redisGet(cache', key, now + ThreeDays) = 0]_vars

Usable(t) == redisGet(cache, Key(t), now) # 0

\* C15: a reset token's cache entry is written once, by the forgotPassword
\* that drew the token, and after that only deleted, by a changePassword
\* given that token that returns success=true, or left to expire; a
\* changePassword that returns success=false deletes nothing, no step
\* rewrites the value or expiry of an existing entry, and a token that was
\* deleted or has expired is never usable again.
C15_TokenLifeCycle ==
    [][\A t \in Tokens :
          LET k == Key(t)
          IN  /\ cache'[k] # cache[k] =>
                    \/ /\ cache[k] = NoEntry
                       /\ \E r \in Reqs :
                             /\ pc[r] = "fp_set" /\ local[r].token = t
                             /\ pc'[r] = "done"
                             /\ cache'[k].userId = local[r].user.id
                    \/ /\ cache'[k] = NoEntry
                       /\ \E r \in Reqs :
                             /\ pc[r] = "cp_del" /\ call[r].token = t
                             /\ pc'[r] = "done"
                             /\ result'[r].success
              /\ (exchanged[t] > 0 \/ Expired(t)) =>
                    ~(redisGet(cache', k, now') # 0)]_vars

\* One token has been exchanged and deleted, another has expired.
C15_Witness ==
    \E t, u \in Tokens :
        /\ exchanged[t] > 0 /\ cache[Key(t)] = NoEntry
        /\ Expired(u) /\ ~Usable(u)

\* Request r is a login that was the first request issued after a
\* changePassword returned success, and names the user that call changed
\* (followsChange[r] holds the user's id, the new password as given, the
\* digest the call found stored and the digest it wrote).
FollowsChange(r) ==
    /\ Done(r, "login")
    /\ followsChange[r].id # 0
    /\ \E u \in findById(users, followsChange[r].id) :
          call[r].input.usernameOrEmail \in {u.username, u.email}

WrongPasswordResult ==
    MutationResult(400, FALSE, Msg("Wrong password"),
                   <<FieldError("password", "Wrong password")>>, 0)

\* What a successful changePassword leaves at its return, and what each of
\* its steps does to the other users.
ChangeSettled(r) ==
    (Done(r, "changePassword") /\ result[r].success)
        => /\ session[r] = parseInt(call[r].userId)
           /\ result[r].user = parseInt(call[r].userId)

OthersKept(r) ==
    (call[r].op = "changePassword" /\ pc[r] # pc'[r] /\ Len(users') = Len(users))
        => \A i \in 1 .. Len(users) :
              i # parseInt(call[r].userId) => users'[i] = users[i]

\* C16 as stated: after changePassword(T, u, p) returns success=true the
\* session's userId is u's id, a following login for u with p succeeds, a
\* following login for u with the previous password (when it differs from
\* p) fails with the "password" field error, and the passwords of all users
\* other than u are unchanged.
C16_AsStated ==
    [][\A r \in Reqs :
          /\ ChangeSettled(r)'
          /\ OthersKept(r)
          /\ (FollowsChange(r)' /\ call'[r].input.password = followsChange'[r].password)
                => /\ result'[r].success
                   /\ result'[r].user = followsChange'[r].id
          /\ (/\ FollowsChange(r)'
              /\ verify(followsChange'[r].previous, call'[r].input.password)
              /\ call'[r].input.password # followsChange'[r].password)
                => result'[r] = WrongPasswordResult]_vars

\* The user whose password was changed before login r still stores the
\* digest that change wrote.
StillStored(r) ==
    \E u \in findById(users, followsChange[r].id) :
        u.password = followsChange[r].written

\* C16 amended: the two statements about the following login hold provided
\* no other changePassword has overwritten u's password since this call
\* wrote it, that is, u still stores the digest this call wrote.
C16_PasswordChangeTakesEffect ==
    [][\A r \in Reqs :
          /\ ChangeSettled(r)'
          /\ OthersKept(r)
          /\ (/\ FollowsChange(r)'
              /\ StillStored(r)'
              /\ call'[r].input.password = followsChange'[r].password)
                => /\ result'[r].success
                   /\ result'[r].user = followsChange'[r].id
          /\ (/\ FollowsChange(r)'
              /\ StillStored(r)'
              /\ verify(followsChange'[r].previous, call'[r].input.password)
              /\ call'[r].input.password # followsChange'[r].password)
                => result'[r] = WrongPasswordResult]_vars

\* The login that follows a password change is refused the previous password.
C16_Witness ==
    \E r \in Reqs :
        /\ FollowsChange(r)
        /\ StillStored(r)
        /\ verify(followsChange[r].previous, call[r].input.password)
        /\ call[r].input.password # followsChange[r].password
        /\ result[r] = WrongPasswordResult

\* The ids forgotPassword stored under token t, as the reset mails record.
Owners(t) == { m.userId : m \in { l \in outbox : l.token = t } }

\* C17: a changePassword that succeeds with token T changes the password of,
\* and establishes a session for, only the user whose id forgotPassword
\* stored as the value of T's cache entry, whatever userId argument it is
\* given.
C17_TokenBoundToUser ==
    [][\A r \in Reqs :
          call[r].op = "changePassword" =>
              /\ (pc[r] = "cp_update" /\ pc'[r] = "cp_del") =>
                    \A i \in 1 .. Len(users) :
                        users'[i] # users[i] => i \in Owners(call[r].token)
              /\ (pc[r] = "cp_del" /\ pc'[r] = "done" /\ result'[r].success) =>
                    /\ session'[r] \in Owners(call[r].token)
                    /\ result'[r].user \in Owners(call[r].token)]_vars

\* changePassword request r has replaced the digest it found stored for its
\* user, and the row still holds what it wrote.
Wrote(r) ==
    /\ pc[r] = "cp_del"
    /\ local[r].updatedPassword # local[r].user.password
    /\ \E u \in findById(users, local[r].userIdNum) :
          u.password = local[r].updatedPassword

\* C18: a changePassword call that returns success=false (code 400 or 500,
\* also a 500 from a cache delete that fails after the user update) leaves
\* every stored password, the token cache and the session's userId as they
\* were before the call: it returns from a point where it has written
\* nothing, and its last step writes nothing.
C18_FailedChangeChangesNothing ==
    [][\A r \in Reqs :
          (call'[r].op = "changePassword" /\ pc[r] # "done" /\ pc'[r] = "done"
              /\ ~result'[r].success)
              => /\ ~Wrote(r)
                 /\ users' = users
                 /\ cache' = cache
                 /\ session' = session]_vars

\* C19: in every reachable state a session whose userId is set holds the id
\* of a user in the user table, and a session's userId is set only by a
\* register, login or changePassword call on that session that returns
\* success=true.
C19_SessionsPointAtUsers ==
    [][\A r \in Reqs :
          /\ session'[r] # 0 => findById(users', session'[r]) # {}
          /\ (session'[r] # session[r] /\ session'[r] # 0) =>
                /\ pc'[r] = "done"
                /\ call'[r].op \in Guarded
                /\ result'[r].success
                /\ result'[r].user = session'[r]]_vars

\* A changePassword has put its user's id on its session while another
\* session holds a different user's id.
C19_Witness ==
    \E r \in Reqs :
        /\ Done(r, "changePassword")
        /\ result[r].success
        /\ session[r] = result[r].user
        /\ \E q \in Reqs : session[q] \notin {0, session[r]}

\* C20: a login call that returns success=false leaves the session's userId
\* (also one already set for another user), the user table and the token
\* cache unchanged; a register call that returns code 400 leaves the
\* session's userId, the user table and the token cache unchanged.
C20_FailedLoginRegisterFrame ==
    [][\A r \in Reqs :
          (/\ pc[r] # "done" /\ pc'[r] = "done"
           /\ \/ call'[r].op = "login" /\ ~result'[r].success
              \/ call'[r].op = "register" /\ result'[r].code = 400)
              => /\ pc[r] = "idle"
                 /\ session' = session
                 /\ users' = users
                 /\ cache' = cache]_vars

\* A login with a wrong password for one user is refused on a session that
\* holds another user's id, and the session still holds it.
C20_Witness ==
    \E r \in Reqs :
        /\ Done(r, "login")
        /\ result[r] = WrongPasswordResult
        /\ session[r] # 0
        /\ \E u \in loginLookup(users, call[r].input.usernameOrEmail) :
              u.id # session[r]

====
